---- MODULE Spec2Model ----
(***************************************************************************)
(* copstr::Str<SIZE>: a fixed-size array of u8 plus a length, with a      *)
(* string-like interface (src/src/copstr.rs).                             *)
(*                                                                         *)
(* A Str value is the record [bytes, len]: bytes is the tuple field .0    *)
(* (the [u8; SIZE] storage, indexed here from 1) and len the field .1.    *)
(* A &str is represented by its UTF-8 bytes (what as_bytes returns), a    *)
(* char by its code point.                                                 *)
(***************************************************************************)
EXTENDS Integers, Sequences, FiniteSets, TLC

VARIABLES
    a,      \* the Str under test
    b,      \* a second Str of the same SIZE, compared with a
    live,   \* TRUE once a constructor has returned an instance into a
    op,     \* name of the last call
    arg,    \* input of the last call: a text (sequence of chars), a byte slice or a char
    ret,    \* value the last call returned
    old     \* a as it was when the last call started

vars == <<a, b, live, op, arg, ret, old>>

----------------------------------------------------------------------------
(* Bounds of the model *)

\* const generic SIZE of the Str type under test
SIZE == 4

\* texts given to the operations are at most SIZE + MaxOver bytes long
MaxOver == 2

MaxTextBytes == SIZE + MaxOver

\* byte slices given to try_from(&[u8]) and to the const constructors are at most
\* SIZE + 1 bytes long
MaxBytes == SIZE + 1

----------------------------------------------------------------------------
(* Input alphabets *)

\* 'a', U+00E9, U+20AC, U+1F496: one char of each encoded size
Scalars == {97, 233, 8364, 128150}

\* 'a'; the lead bytes C3 (2-byte form), ED (3-byte form, a surrogate when followed
\* by A0..BF) and F0 (4-byte form); the continuation bytes A9 and 9F; C0, never valid
ByteAlphabet == {97, 195, 237, 240, 169, 159, 192}

\* bytes given to the const constructors: 'a' and a lone continuation byte
ConstByteAlphabet == {97, 159}

----------------------------------------------------------------------------
(* char::encode_utf8, as called by push *)

EncodeUtf8(ch) ==
    IF ch < 128 THEN <<ch>>
    ELSE IF ch < 2048 THEN <<192 + (ch \div 64), 128 + (ch % 64)>>
    ELSE IF ch < 65536 THEN
        <<224 + (ch \div 4096), 128 + ((ch \div 64) % 64), 128 + (ch % 64)>>
    ELSE <<240 + (ch \div 262144), 128 + ((ch \div 4096) % 64),
           128 + ((ch \div 64) % 64), 128 + (ch % 64)>>

\* width of the encoded form announced by a leading byte (str::chars)
Utf8CharWidth(x) ==
    IF x < 128 THEN 1 ELSE IF x < 224 THEN 2 ELSE IF x < 240 THEN 3 ELSE 4

\* the code point decoded from the first char of s (str::chars, next_code_point)
NextCodePoint(s) ==
    LET x == s[1] IN
    IF x < 128 THEN x
    ELSE IF x < 224 THEN (x % 32) * 64 + (s[2] % 64)
    ELSE IF x < 240 THEN (x % 16) * 4096 + (s[2] % 64) * 64 + (s[3] % 64)
    ELSE (x % 8) * 262144 + (s[2] % 64) * 4096 + (s[3] % 64) * 64 + (s[4] % 64)

RECURSIVE Chars(_)
\* s.chars() of a &str: the chars of its bytes, in order
Chars(s) ==
    IF s = <<>> THEN <<>>
    ELSE LET w == Utf8CharWidth(s[1]) IN
         <<NextCodePoint(s)>> \o Chars(SubSeq(s, w + 1, Len(s)))

IsCont(x) == x >= 128 /\ x <= 191

RECURSIVE ValidUpTo(_, _)
\* str::from_utf8: the number of leading bytes of arr, from index i on, that are
\* valid; Len(arr) when all of arr is valid UTF-8
ValidUpTo(arr, i) ==
    IF i >= Len(arr) THEN Len(arr)
    ELSE
    LET first == arr[i + 1]
        n == Len(arr) - i
        at(k) == arr[i + k]
    IN
    IF first < 128 THEN ValidUpTo(arr, i + 1)
    ELSE IF first >= 194 /\ first <= 223 THEN
        IF n >= 2 /\ IsCont(at(2)) THEN ValidUpTo(arr, i + 2) ELSE i
    ELSE IF first >= 224 /\ first <= 239 THEN
        IF /\ n >= 3
           /\ \/ first = 224 /\ at(2) >= 160 /\ at(2) <= 191
              \/ first \in (225..236) \cup {238, 239} /\ IsCont(at(2))
              \/ first = 237 /\ at(2) >= 128 /\ at(2) <= 159
           /\ IsCont(at(3))
        THEN ValidUpTo(arr, i + 3) ELSE i
    ELSE IF first >= 240 /\ first <= 244 THEN
        IF /\ n >= 4
           /\ \/ first = 240 /\ at(2) >= 144 /\ at(2) <= 191
              \/ first \in 241..243 /\ IsCont(at(2))
              \/ first = 244 /\ at(2) >= 128 /\ at(2) <= 143
           /\ IsCont(at(3))
           /\ IsCont(at(4))
        THEN ValidUpTo(arr, i + 4) ELSE i
    ELSE i

\* str::from_utf8(arr).is_ok()
FromUtf8Ok(arr) == ValidUpTo(arr, 0) = Len(arr)

----------------------------------------------------------------------------
(* Results *)

OkUnit == [tag |-> "Ok"]
Ok(v) == [tag |-> "Ok", val |-> v]
Err(e) == [tag |-> "Err", err |-> e]
\* a failed assert!: the call does not return
Panic == [tag |-> "Panic"]

----------------------------------------------------------------------------
(* impl Str<SIZE> *)

MutNewConstTruncU8(bytes) ==
    LET len == Len(bytes) IN
    [bytes |-> [i \in 1..SIZE |-> IF i <= len THEN bytes[i] ELSE 0], len |-> len]

NewConstTruncU8(bytes) ==
    LET len == IF SIZE < Len(bytes) THEN SIZE ELSE Len(bytes) IN
    [bytes |-> [i \in 1..SIZE |-> IF i <= len THEN bytes[i] ELSE 0], len |-> len]

NewConstU8(bytes) ==
    IF ~(Len(bytes) <= SIZE) THEN Panic ELSE Ok(NewConstTruncU8(bytes))

NewConst(string) == NewConstU8(string)

NewConstTrunc(string) == NewConstTruncU8(string)

EMPTY == NewConst(<<>>).val

Default == EMPTY

Capacity(self) == SIZE

ByteLen(self) == self.len

MutPushPartial(self, ch) ==
    LET result == EncodeUtf8(ch)
        room == Capacity(self) - ByteLen(self)
        n == IF Len(result) > room THEN room ELSE Len(result)
    IN
    [self |-> [bytes |-> [i \in 1..SIZE |->
                             IF i > self.len /\ i <= self.len + n
                             THEN result[i - self.len] ELSE self.bytes[i]],
               len |-> self.len + n],
     ret |-> IF Len(result) > room THEN Err("ErrorOverflow") ELSE OkUnit]

\* push returns the Str as the call leaves it, and the call's result
Push(self, ch) ==
    LET result == EncodeUtf8(ch) IN
    IF Len(result) > Capacity(self) - ByteLen(self)
    THEN [self |-> self, ret |-> Err("ErrorOverflow")]
    ELSE [self |-> [bytes |-> [i \in 1..SIZE |->
                                  IF i > self.len /\ i <= self.len + Len(result)
                                  THEN result[i - self.len] ELSE self.bytes[i]],
                    len |-> self.len + Len(result)],
          ret |-> OkUnit]

MutReplaceStrictlyLess(self, s) ==
    LET byteslen == Len(s) IN
    IF byteslen >= Capacity(self)
    THEN [self |-> self, ret |-> Err("ErrorOverflow")]
    ELSE [self |-> [bytes |-> [i \in 1..SIZE |->
                                  IF i <= byteslen THEN s[i] ELSE self.bytes[i]],
                    len |-> byteslen],
          ret |-> OkUnit]

MutReplaceClears(self, s) ==
    LET byteslen == Len(s) IN
    IF byteslen > Capacity(self)
    THEN [self |-> [self EXCEPT !.len = 0], ret |-> Err("ErrorOverflow")]
    ELSE [self |-> [bytes |-> [i \in 1..SIZE |->
                                  IF i <= byteslen THEN s[i] ELSE self.bytes[i]],
                    len |-> byteslen],
          ret |-> OkUnit]

Replace(self, s) ==
    LET byteslen == Len(s) IN
    IF byteslen > Capacity(self)
    THEN [self |-> self, ret |-> Err("ErrorOverflow")]
    ELSE [self |-> [bytes |-> [i \in 1..SIZE |->
                                  IF i <= byteslen THEN s[i] ELSE self.bytes[i]],
                    len |-> byteslen],
          ret |-> OkUnit]

RECURSIVE ReplaceTruncLoop(_, _)
\* the for loop of replace_trunc: push each char, return at the first overflow
ReplaceTruncLoop(self, chs) ==
    IF chs = <<>> THEN self
    ELSE LET r == Push(self, Head(chs)) IN
         IF r.ret = Err("ErrorOverflow") THEN r.self
         ELSE ReplaceTruncLoop(r.self, Tail(chs))

MutReplaceTruncBytes(self, s) ==
    LET n == IF Len(s) > SIZE THEN SIZE ELSE Len(s) IN
    [bytes |-> [i \in 1..SIZE |-> IF i <= n THEN s[i] ELSE self.bytes[i]], len |-> n]

RECURSIVE MutReplaceTruncSkipLoop(_, _)
MutReplaceTruncSkipLoop(self, chs) ==
    IF chs = <<>> THEN self
    ELSE MutReplaceTruncSkipLoop(Push(self, Head(chs)).self, Tail(chs))

MutReplaceTruncSkip(self, s) ==
    MutReplaceTruncSkipLoop([self EXCEPT !.len = 0], Chars(s))

ReplaceTrunc(self, s) ==
    ReplaceTruncLoop([self EXCEPT !.len = 0], Chars(s))

New(string) ==
    LET r == Replace(Default, string) IN
    IF r.ret.tag = "Err" THEN Err(r.ret.err) ELSE Ok(r.self)

NewTrunc(string) == ReplaceTrunc(Default, string)

\* from_utf8_unchecked(&self.0[0..self.1]): the bytes, read as a &str
AsStr(self) == SubSeq(self.bytes, 1, self.len)

----------------------------------------------------------------------------
(* Trait implementations *)

TryFromStr(string) == New(string)

MutTryFromBytesSizeFirst(arr) ==
    IF Len(arr) > SIZE THEN Err("Error::Overflow")
    ELSE IF ~FromUtf8Ok(arr) THEN Err("Error::Utf8")
    ELSE Ok(New(arr).val)

TryFromBytes(arr) ==
    IF ~FromUtf8Ok(arr) THEN Err("Error::Utf8")
    ELSE LET s == New(arr) IN
         IF s.tag = "Err" THEN Err("Error::Overflow") ELSE Ok(s.val)

FromStr(s) == TryFromStr(s)

AsRefBytes(self) == SubSeq(self.bytes, 1, ByteLen(self))

MutEqStorage(self, other) == self.bytes = other.bytes /\ self.len = other.len

Eq(self, other) == AsStr(self) = AsStr(other)

\* what hash feeds the Hasher: str's Hash writes the bytes, then 0xff
Hash(self) == AsStr(self) \o <<255>>

RECURSIVE FromIterLoop(_, _)
\* the for loop of from_iter: push each char, break at the first overflow
FromIterLoop(s, iter) ==
    IF iter = <<>> THEN s
    ELSE LET r == Push(s, Head(iter)) IN
         IF r.ret = Err("ErrorOverflow") THEN r.self
         ELSE FromIterLoop(r.self, Tail(iter))

RECURSIVE MutFromIterContinue(_)
MutFromIterContinue(iter) ==
    IF iter = <<>> THEN Default
    ELSE Push(MutFromIterContinue(SubSeq(iter, 1, Len(iter) - 1)),
              iter[Len(iter)]).self

FromIter(iter) == FromIterLoop(Default, iter)

----------------------------------------------------------------------------
(* Inputs *)

RECURSIVE Utf8(_)
\* the &str holding the chars of text: its bytes are their encodings, in order
Utf8(text) ==
    IF text = <<>> THEN <<>> ELSE EncodeUtf8(Head(text)) \o Utf8(Tail(text))

RECURSIVE TextsOfBytes(_)
\* the texts over Scalars whose &str is exactly n bytes long
TextsOfBytes(n) ==
    IF n = 0 THEN {<<>>}
    ELSE UNION {{<<c>> \o t : t \in TextsOfBytes(n - Len(EncodeUtf8(c)))} :
                c \in {c \in Scalars : Len(EncodeUtf8(c)) <= n}}

Texts == UNION {TextsOfBytes(n) : n \in 0..MaxTextBytes}

ByteSlices == UNION {[1..n -> ByteAlphabet] : n \in 0..MaxBytes}

ConstByteSlices == UNION {[1..n -> ConstByteAlphabet] : n \in 0..MaxBytes}

----------------------------------------------------------------------------
(* State machine: one Str is constructed, then mutated in place, one call  *)
(* at a time. op is "start" before the constructor call, "idle" between    *)
(* calls, and the name of the call that has just returned otherwise.       *)

Init ==
    /\ a = EMPTY
    /\ b = EMPTY
    /\ live = FALSE
    /\ op = "start"
    /\ arg = <<>>
    /\ ret = OkUnit
    /\ old = EMPTY

\* no Str has been constructed yet
Start == op = "start"

\* a holds a Str and no call on it is in progress
Idle == live /\ op = "idle"

\* a constructor call `a = C(x)`: r is what it returns; a is bound on Ok only
Construct(o, x, r) ==
    /\ op' = o
    /\ arg' = x
    /\ ret' = r
    /\ live' = (r.tag = "Ok")
    /\ a' = IF r.tag = "Ok" THEN r.val ELSE a
    /\ old' = a
    /\ UNCHANGED b

\* a call on &mut a: r.self is a after the call and r.ret what the call returns
Mutate(o, x, r) ==
    /\ op' = o
    /\ arg' = x
    /\ ret' = r.ret
    /\ a' = r.self
    /\ old' = a
    /\ UNCHANGED <<b, live>>

\* the caller has read what the last call returned and goes on with a
Observe ==
    /\ live
    /\ op \notin {"start", "idle"}
    /\ op' = "idle"
    /\ arg' = <<>>
    /\ ret' = OkUnit
    /\ old' = a
    /\ UNCHANGED <<a, b, live>>

CallDefault ==
    /\ Start
    /\ Construct("default", <<>>, Ok(Default))

CallNew ==
    /\ Start
    /\ \E t \in Texts : Construct("new", t, New(Utf8(t)))

CallNewTrunc ==
    /\ Start
    /\ \E t \in Texts : Construct("new_trunc", t, Ok(NewTrunc(Utf8(t))))

CallTryFromStr ==
    /\ Start
    /\ \E t \in Texts : Construct("try_from_str", t, TryFromStr(Utf8(t)))

CallTryFromBytes ==
    /\ Start
    /\ \E arr \in ByteSlices : Construct("try_from_bytes", arr, TryFromBytes(arr))

CallFromStr ==
    /\ Start
    /\ \E t \in Texts : Construct("from_str", t, FromStr(Utf8(t)))

CallFromIter ==
    /\ Start
    /\ \E t \in Texts : Construct("from_iter", t, Ok(FromIter(t)))

CallPush ==
    /\ Idle
    /\ \E ch \in Scalars : Mutate("push", ch, Push(a, ch))

CallReplace ==
    /\ Idle
    /\ \E t \in Texts : Mutate("replace", t, Replace(a, Utf8(t)))

CallReplaceTrunc ==
    /\ Idle
    /\ \E t \in Texts :
           Mutate("replace_trunc", t, [self |-> ReplaceTrunc(a, Utf8(t)), ret |-> OkUnit])

Next ==
    \/ CallDefault
    \/ CallNew
    \/ CallNewTrunc
    \/ CallTryFromStr
    \/ CallTryFromBytes
    \/ CallFromStr
    \/ CallFromIter
    \/ CallPush
    \/ CallReplace
    \/ CallReplaceTrunc
    \/ Observe

Spec == Init /\ [][Next]_vars

(* The same, with the const constructors *)

CallNewConst ==
    /\ Start
    /\ \E t \in Texts : Construct("new_const", t, NewConst(Utf8(t)))

CallNewConstTrunc ==
    /\ Start
    /\ \E t \in Texts : Construct("new_const_trunc", t, Ok(NewConstTrunc(Utf8(t))))

CallNewConstU8 ==
    /\ Start
    /\ \E arr \in ConstByteSlices : Construct("new_const_u8", arr, NewConstU8(arr))

CallNewConstTruncU8 ==
    /\ Start
    /\ \E arr \in ConstByteSlices :
           Construct("new_const_trunc_u8", arr, Ok(NewConstTruncU8(arr)))

NextConst ==
    \/ Next
    \/ CallNewConst
    \/ CallNewConstTrunc
    \/ CallNewConstU8
    \/ CallNewConstTruncU8

SpecConst == Init /\ [][NextConst]_vars

(* Two Strs of the same SIZE, compared: b is constructed and kept, a is     *)
(* constructed and then mutated, so that its unused tail holds old bytes   *)

\* the texts that fit a Str
FitTexts == UNION {TextsOfBytes(n) : n \in 0..SIZE}

EqNew ==
    /\ Start
    /\ \E ta \in FitTexts, tb \in FitTexts :
           /\ a' = New(Utf8(ta)).val
           /\ b' = New(Utf8(tb)).val
    /\ live' = TRUE
    /\ op' = "idle"
    /\ UNCHANGED <<arg, ret, old>>

EqPush ==
    /\ Idle
    /\ \E ch \in Scalars : a' = Push(a, ch).self
    /\ UNCHANGED <<b, live, op, arg, ret, old>>

EqReplace ==
    /\ Idle
    /\ \E t \in FitTexts : a' = Replace(a, Utf8(t)).self
    /\ UNCHANGED <<b, live, op, arg, ret, old>>

EqReplaceTrunc ==
    /\ Idle
    /\ \E t \in FitTexts : a' = ReplaceTrunc(a, Utf8(t))
    /\ UNCHANGED <<b, live, op, arg, ret, old>>

NextEq ==
    \/ EqNew
    \/ EqPush
    \/ EqReplace
    \/ EqReplaceTrunc

SpecEq == Init /\ [][NextEq]_vars

----------------------------------------------------------------------------
(* Notions the properties are stated with *)

\* a Unicode scalar value: a code point that is no surrogate
IsScalarValue(c) == (c >= 0 /\ c <= 55295) \/ (c >= 57344 /\ c <= 1114111)

\* the number of bytes of the UTF-8 form of a scalar value
EncodedSize(c) == IF c <= 127 THEN 1 ELSE IF c <= 2047 THEN 2 ELSE IF c <= 65535 THEN 3 ELSE 4

\* the payload bits of the first w bytes of bs, read as one w-byte form
Payload(bs, w) ==
    IF w = 1 THEN bs[1]
    ELSE IF w = 2 THEN (bs[1] % 32) * 64 + (bs[2] % 64)
    ELSE IF w = 3 THEN (bs[1] % 16) * 4096 + (bs[2] % 64) * 64 + (bs[3] % 64)
    ELSE (bs[1] % 8) * 262144 + (bs[2] % 64) * 4096 + (bs[3] % 64) * 64 + (bs[4] % 64)

RECURSIVE WellFormed(_)
\* bs is the UTF-8 encoding of some sequence of Unicode scalar values: it is empty,
\* or starts with the w-byte encoding of a scalar value of encoded size w and goes
\* on with a well-formed rest
WellFormed(bs) ==
    \/ bs = <<>>
    \/ \E w \in 1..4 :
           /\ w <= Len(bs)
           /\ LET c == Payload(bs, w) IN
              /\ IsScalarValue(c)
              /\ EncodedSize(c) = w
              /\ \A i \in 1..w :
                     bs[i] = IF i = 1
                             THEN (CASE w = 1 -> c
                                     [] w = 2 -> 192 + (c \div 64)
                                     [] w = 3 -> 224 + (c \div 4096)
                                     [] w = 4 -> 240 + (c \div 262144))
                             ELSE 128 + ((c \div (2 ^ (6 * (w - i)))) % 64)
           /\ WellFormed(SubSeq(bs, w + 1, Len(bs)))

\* the longest prefix of text, in whole chars, whose UTF-8 form is at most SIZE bytes
LongestFittingPrefix(text) ==
    LET fits == {k \in 0..Len(text) : Len(Utf8(SubSeq(text, 1, k))) <= SIZE}
        k == CHOOSE k \in fits : \A j \in fits : j <= k
    IN SubSeq(text, 1, k)

\* bytes [0, len) of the two Strs are the same
SameUsedBytes(x, y) == x.len = y.len /\ \A i \in 1..x.len : x.bytes[i] = y.bytes[i]

StrictOps == {"new", "try_from_str", "from_str", "replace"}

----------------------------------------------------------------------------
(* Properties *)

\* C1: in every state reached from an empty Str or from new / new_trunc / try_from /
\* from_str / from_iter by push, replace and replace_trunc calls, successful or not,
\* bytes [0, len) are the UTF-8 encoding of a sequence of Unicode scalar values (so
\* len is on a code-point boundary) and as_str exposes valid UTF-8.
C1_ContentsWellFormed ==
    live => WellFormed(AsStr(a)) /\ FromUtf8Ok(AsStr(a))

\* C1 witness: replace_trunc has cut an over-long text before a multi-byte char, over
\* older content, and the byte right after the used part is not ASCII
C1_Witness ==
    /\ op = "replace_trunc"
    /\ Len(Utf8(arg)) > SIZE
    /\ a.len > 0
    /\ a.len < SIZE
    /\ a.bytes[a.len + 1] >= 128

\* C2 (as claimed): as_str is well-formed UTF-8 whatever constructor built the Str,
\* the const constructors included, and their truncation cuts at code-point
\* boundaries only.
C2_WellFormedOnEveryConstructionPath ==
    live => WellFormed(AsStr(a))

\* C3: byte_len() <= SIZE in every state, whatever the constructor and the calls,
\* capacity() is SIZE, and capacity() - byte_len() does not go below 0.
C3_LengthWithinCapacity ==
    /\ ByteLen(a) <= SIZE
    /\ Capacity(a) = SIZE
    /\ Capacity(a) - ByteLen(a) >= 0
    /\ ByteLen(old) <= Capacity(old)

\* C3 witness: new_const_trunc_u8 has been given more than SIZE bytes
C3_Witness ==
    /\ op = "new_const_trunc_u8"
    /\ Len(arg) > SIZE
    /\ ByteLen(a) = SIZE

\* C4: after new_trunc(s) or replace_trunc(s) the content is the longest prefix of s,
\* in whole chars, whose UTF-8 form is at most SIZE bytes.
C4_TruncIsLongestFittingPrefix ==
    op \in {"new_trunc", "replace_trunc"} =>
        /\ ret.tag = "Ok"
        /\ AsStr(a) = Utf8(LongestFittingPrefix(arg))
        /\ ByteLen(a) <= SIZE

\* C4 witness: replace_trunc over older content has dropped a char that did not fit
\* although the char after it would have fitted
C4_Witness ==
    /\ op = "replace_trunc"
    /\ old.len > 0
    /\ LET k == Len(LongestFittingPrefix(arg)) IN
       /\ k + 2 <= Len(arg)
       /\ ByteLen(a) + EncodedSize(arg[k + 2]) <= SIZE

\* C5: new, try_from(&str), from_str and replace succeed exactly when the text is at
\* most SIZE bytes long; then byte_len is its length and as_str is the text; else
\* the result is ErrorOverflow, and a constructor yields no instance.
C5_StrictSucceedsIffFits ==
    op \in StrictOps =>
        LET s == Utf8(arg) IN
        /\ ret.tag = "Ok" <=> Len(s) <= SIZE
        /\ ret.tag = "Ok" => live /\ ByteLen(a) = Len(s) /\ AsStr(a) = s
        /\ ret.tag # "Ok" => ret = Err("ErrorOverflow") /\ (op # "replace" => ~live)

\* C5 witness: replace has succeeded exactly at capacity, over different content
C5_Witness ==
    /\ op = "replace"
    /\ ret.tag = "Ok"
    /\ Len(Utf8(arg)) = SIZE
    /\ old.len > 0
    /\ AsStr(old) # AsStr(a)

\* C6: push(ch) succeeds exactly when the encoded size of ch (1 to 4) is at most
\* SIZE - len; then the content is the old content followed by ch; else the result
\* is ErrorOverflow and the Str is unchanged, byte for byte.
C6_PushAppendsOrLeavesUnchanged ==
    op = "push" =>
        LET n == EncodedSize(arg) IN
        /\ n \in 1..4
        /\ ret = OkUnit <=> n <= SIZE - old.len
        /\ ret = OkUnit =>
               /\ ByteLen(a) = old.len + n
               /\ SubSeq(AsStr(a), 1, old.len) = AsStr(old)
               /\ Chars(SubSeq(AsStr(a), old.len + 1, a.len)) = <<arg>>
        /\ ret # OkUnit => ret = Err("ErrorOverflow") /\ a = old

\* C6 witness: a push of a multi-byte char has failed with room left
C6_Witness ==
    /\ op = "push"
    /\ ret = Err("ErrorOverflow")
    /\ old.len > 0
    /\ old.len < SIZE

\* C7: a replace(s) with s longer than SIZE bytes returns ErrorOverflow and leaves
\* as_str and byte_len as they were.
C7_FailedReplaceLeavesContent ==
    (op = "replace" /\ Len(Utf8(arg)) > SIZE) =>
        /\ ret = Err("ErrorOverflow")
        /\ AsStr(a) = AsStr(old)
        /\ ByteLen(a) = ByteLen(old)

\* C7 witness: a replace has failed on non-empty content with a text of at most
\* SIZE chars, too long only because of a multi-byte char
C7_Witness ==
    /\ op = "replace"
    /\ ret = Err("ErrorOverflow")
    /\ old.len > 0
    /\ Len(arg) <= SIZE

\* C8: try_from(&[u8]) fails with Error::Utf8 on every malformed slice, whatever its
\* length, with Error::Overflow on a well-formed slice longer than SIZE, and
\* succeeds with the slice as content otherwise.
C8_TryFromBytesValidatesFirst ==
    op = "try_from_bytes" =>
        /\ ~WellFormed(arg) => ret = Err("Error::Utf8") /\ ~live
        /\ (WellFormed(arg) /\ Len(arg) > SIZE) => ret = Err("Error::Overflow") /\ ~live
        /\ (WellFormed(arg) /\ Len(arg) <= SIZE) =>
               ret.tag = "Ok" /\ live /\ AsStr(a) = arg

\* C8 witness: try_from has been given a malformed slice longer than SIZE
C8_Witness ==
    /\ op = "try_from_bytes"
    /\ ~WellFormed(arg)
    /\ Len(arg) > SIZE
    /\ ret = Err("Error::Utf8")

\* C9: a == b exactly when bytes [0, len) of a and b are the same (their as_str),
\* equal Strs hash alike, and the byte view is bytes [0, len): the bytes from len on
\* never matter.
C9_EqHashIgnoreUnusedBytes ==
    live =>
        /\ Eq(a, b) <=> SameUsedBytes(a, b)
        /\ Eq(a, b) => Hash(a) = Hash(b)
        /\ SameUsedBytes(a, b) => AsRefBytes(a) = AsRefBytes(b)
        /\ Len(AsRefBytes(a)) = ByteLen(a)
        /\ \A i \in 1..ByteLen(a) : AsRefBytes(a)[i] = a.bytes[i]

\* C9 witness: equal non-empty Strs whose storages differ after the used part
C9_Witness ==
    /\ live
    /\ Eq(a, b)
    /\ a.len > 0
    /\ a.bytes # b.bytes

\* C10: collecting chars gives what new_trunc gives on the text made of them, and
\* reports no error.
C10_FromIterIsNewTrunc ==
    op = "from_iter" =>
        /\ ret = Ok(a)
        /\ a = NewTrunc(Utf8(arg))

\* C10 witness: from_iter has stopped at a char that did not fit although the next
\* one would have
C10_Witness ==
    /\ op = "from_iter"
    /\ LET k == Len(Chars(AsStr(a))) IN
       /\ k + 2 <= Len(arg)
       /\ ByteLen(a) + EncodedSize(arg[k + 2]) <= SIZE

====
